---- MODULE Spec2Model ----
(***************************************************************************)
(* Apple Box Game: the DFS solver (src/src/algorithms/dfs_solver.py, and   *)
(* its standalone copy src/strategyDFS.py) as a state machine.             *)
(*                                                                         *)
(* One solve invocation is a stack of _recurse frames.  Grids and Box      *)
(* lists are Python objects held by reference, so they live in a heap      *)
(* (`heap` for grids, `lists` for Box lists) and frames and Strategies     *)
(* hold references into it.  Box coordinates are 0-based as in the code;   *)
(* TLA+ sequences are 1-based, so cell (i, j) of the code is g[i+1][j+1].  *)
(***************************************************************************)
EXTENDS Integers, Sequences, FiniteSets

\* ---------------------------------------------------------------------------
\* Configuration (src/src/config.py), scaled down for model checking
\* ---------------------------------------------------------------------------

HEIGHT == 2

WIDTH == 6

\* a floor array too short for the deepest node
ShortNumMoves == (HEIGHT * WIDTH) \div 4

MAX_NUM_MOVES == (HEIGHT * WIDTH) \div 2 + 1

D == 4

VisitedCap == 1000

\* float("inf"): larger than every score (a score never exceeds HEIGHT * WIDTH)
Inf == HEIGHT * WIDTH + 1

\* Limb base of the arbitrary-precision integers used for the grid hash
\* (Python ints do not overflow; 11^(HEIGHT*WIDTH) does not fit a machine int)
LimbBase == 10000

\* ---------------------------------------------------------------------------
\* Inputs
\* ---------------------------------------------------------------------------

\* most non-zero cells in a general input grid
MaxTiles == 4

\* most solve invocations in the repeated-invocation specification
MaxSolves == 2

TileVals == {1, 4, 5}

Cells == (1..HEIGHT) \X (1..WIDTH)

\* the cells a general input grid may have tiles in: its top-left corner
TileCells == (1..2) \X (1..4)

ZeroGrid == [i \in 1..HEIGHT |-> [j \in 1..WIDTH |-> 0]]

\* the grid holding the tiles `a` (a function from a set of cells to values)
GridOf(a) ==
    [i \in 1..HEIGHT |-> [j \in 1..WIDTH |->
        IF <<i, j>> \in DOMAIN a THEN a[<<i, j>>] ELSE 0]]

\* general inputs: at most MaxTiles tiles, each valued in TileVals
GeneralGrids ==
    UNION {{GridOf(a) : a \in [S -> TileVals]} :
           S \in {T \in SUBSET TileCells : Cardinality(T) <= MaxTiles}}

\* inputs made of any number of tiles valued 5
FiveGrids == {GridOf([c \in S |-> 5]) : S \in SUBSET TileCells}

\* inputs whose only tiles are 1, 2, 3, 4 in one row (any order, any columns)
RunGrids ==
    UNION {{GridOf(a) : a \in {b \in [S -> 1..4] :
                                 \A p, q \in S : p # q => b[p] # b[q]}} :
           S \in {T \in SUBSET Cells :
                    /\ Cardinality(T) = 4
                    /\ \A p, q \in T : p[1] = q[1]}}

\* the origins <<x, y>> (0-based) a region 5 wide and 2 high can have
OnesOrigins == (0..(WIDTH - 5)) \X (0..(HEIGHT - 2))

\* the grid whose region 5 wide and 2 high at column x, row y is filled with 1
OnesGrid(x, y) ==
    [i \in 1..HEIGHT |-> [j \in 1..WIDTH |->
        IF i \in (y + 1)..(y + 2) /\ j \in (x + 1)..(x + 5) THEN 1 ELSE 0]]

OnesGrids == {OnesGrid(o[1], o[2]) : o \in OnesOrigins}

\* the grid full of tiles valued 5
FullFives == [i \in 1..HEIGHT |-> [j \in 1..WIDTH |-> 5]]

\* inputs whose top-left 2 x 3 corner is full of tiles valued in TileVals:
\* moves of different counts at the same depth
MixedGrids == {GridOf(a) : a \in [(1..2) \X (1..3) -> TileVals]}

\* inputs with the greatest tile value: tiles valued 1, 5 or 9 in a 2 x 2
\* corner
NineGrids == {GridOf(a) : a \in [(1..2) \X (1..2) -> {1, 5, 9}]}

Grids ==
    GeneralGrids \cup FiveGrids \cup RunGrids \cup OnesGrids \cup {FullFives}
        \cup MixedGrids \cup NineGrids

\* inputs of the repeated-invocation specification: tiles valued 5 in a 2 x 2 corner
RepeatGrids == {GridOf([c \in S |-> 5]) : S \in SUBSET ((1..2) \X (1..2))}

\* ---------------------------------------------------------------------------
\* Arithmetic helpers
\* ---------------------------------------------------------------------------

Min(a, b) == IF a < b THEN a ELSE b

\* the element of a one-element set; The({F(v) : v \in {e}}) is F(e) with e
\* evaluated once, before F
The(S) == CHOOSE v \in S : TRUE

\* the number low + LimbBase * high in its one written form: little-endian
\* base-LimbBase limbs without leading zeros, 0 written <<>>; a negative
\* number ends with the limb -1, which stands for its sign, without a limb
\* LimbBase - 1 ahead of it, -1 written <<-1>>.  Equal Python ints have
\* equal limbs.
Limbs(low, high) ==
    IF low = 0 /\ high = <<>> THEN <<>>
    ELSE IF low = LimbBase - 1 /\ high = <<-1>> THEN <<-1>>
    ELSE <<low>> \o high

\* limbs * m + c on numbers written as limbs
RECURSIVE MulAdd(_, _, _)
MulAdd(limbs, m, c) ==
    IF limbs = <<>>
    THEN IF c = 0 THEN <<>>
         ELSE IF c = -1 THEN <<-1>>
         ELSE The({Limbs(c % LimbBase, high) :
                     high \in {MulAdd(<<>>, m, c \div LimbBase)}})
    ELSE IF limbs = <<-1>> THEN MulAdd(<<>>, m, c - m)
    ELSE The({The({Limbs(t % LimbBase, high) :
                     high \in {MulAdd(Tail(limbs), m, t \div LimbBase)}}) :
                t \in {Head(limbs) * m + c}})

\* ---------------------------------------------------------------------------
\* DFSSolver._hash_grid
\* ---------------------------------------------------------------------------

\* the cells of a grid in row-major order
RECURSIVE Flatten(_)
Flatten(g) == IF g = <<>> THEN <<>> ELSE Head(g) \o Flatten(Tail(g))

\* the fold with 9 for 11: a multiplier that is not above every cell value
RECURSIVE HashBaseNine(_, _)
HashBaseNine(vals, n) ==
    IF n = 0 THEN <<>>
    ELSE The({MulAdd(hash_val, 9, vals[n]) : hash_val \in {HashBaseNine(vals, n - 1)}})

\* hash_val after the first n values
RECURSIVE HashAfter(_, _)
HashAfter(vals, n) ==
    IF n = 0 THEN <<>>
    ELSE The({MulAdd(hash_val, 11, vals[n]) : hash_val \in {HashAfter(vals, n - 1)}})

hash_grid(g) == The({HashAfter(vals, Len(vals)) : vals \in {Flatten(g)}})

\* ---------------------------------------------------------------------------
\* DFSSolver._recurse, lines 82-121: cumulative sums and candidate enumeration
\* ---------------------------------------------------------------------------

\* cum_sum after the first n cells (row-major) have been filled in
RECURSIVE CumAfter(_, _)
CumAfter(g, n) ==
    IF n = 0 THEN [i \in 0..HEIGHT |-> [j \in 0..WIDTH |-> 0]]
    ELSE LET i == (n - 1) \div WIDTH
             j == (n - 1) % WIDTH
         IN  The({[cum EXCEPT ![i + 1][j + 1] =
                      cum[i + 1][j] + cum[i][j + 1] - cum[i][j] + g[i + 1][j + 1]] :
                  cum \in {CumAfter(g, n - 1)}})

cum_sum(g) == The({CumAfter(grid, HEIGHT * WIDTH) : grid \in {g}})

\* the cells (1-based) of the rectangle at column x, row y, w wide, h high
BoxCells(x, y, w, h) == ((y + 1)..(y + h)) \X ((x + 1)..(x + w))

\* the count with the test grid[i][j] > 1 for grid[i][j] > 0
CountAboveOne(g, x, y, w, h) ==
    Cardinality({c \in BoxCells(x, y, w, h) : g[c[1]][c[2]] > 1})

\* number of non-zero cells of g inside the rectangle (lines 107-111, 134-136)
CountNonZero(g, x, y, w, h) ==
    Cardinality({c \in BoxCells(x, y, w, h) : g[c[1]][c[2]] > 0})

\* a sort that puts an entry before the entries of equal count
InsertBeforeEqual(s, e) ==
    LET k == Cardinality({i \in 1..Len(s) : s[i][5] < e[5]})
    IN  SubSeq(s, 1, k) \o <<e>> \o SubSeq(s, k + 1, Len(s))

\* list.sort(key=lambda move: move[4]) is stable
InsertStable(s, e) ==
    LET k == Cardinality({i \in 1..Len(s) : s[i][5] <= e[5]})
    IN  SubSeq(s, 1, k) \o <<e>> \o SubSeq(s, k + 1, Len(s))

\* the first n entries of s, sorted
RECURSIVE SortFirst(_, _)
SortFirst(s, n) ==
    IF n = 0 THEN <<>>
    ELSE The({InsertStable(sorted, s[n]) : sorted \in {SortFirst(s, n - 1)}})

SortByCount(s) == The({SortFirst(moves, Len(moves)) : moves \in {s}})

\* box_sum with the corner term of the inclusion-exclusion left out
box_sum_no_corner(cum, x, y, w, h) ==
    cum[y + h][x + w] - cum[y + h][x] - cum[y][x + w]

\* box_sum (lines 98-103)
box_sum(cum, x, y, w, h) ==
    cum[y + h][x + w] - cum[y + h][x] - cum[y][x + w] + cum[y][x]

\* the test of line 105 with 9 for 10: one tile valued 9 is a move
is_move_nine(sum) == sum = 9

\* the test of line 105 taken as "at least 10"
is_move_at_least(sum) == sum >= 10

\* box_sum == 10 (line 105)
is_move(sum) == sum = 10

\* the test of line 114 with <= for <
has_room_off_by_one(possible_moves) == Len(possible_moves) <= D

\* len(possible_moves) < config.D (line 114)
has_room(possible_moves) == Len(possible_moves) < D

\* the test of line 119 with <= for <
is_not_larger(count, worst) == count <= worst

\* count < possible_moves[-1][4] (line 119)
is_smaller(count, worst) == count < worst

\* one iteration of the innermost loop, for rectangle r = <<x, y, w, h>>
EnumStep(g, cum, possible_moves, r) ==
    LET x == r[1]
        y == r[2]
        w == r[3]
        h == r[4]
        count == CountNonZero(g, x, y, w, h)
    IN  IF is_move(box_sum(cum, x, y, w, h))
        THEN IF has_room(possible_moves)
             THEN SortByCount(Append(possible_moves, <<x, y, w, h, count>>))
             ELSE IF is_smaller(count, possible_moves[Len(possible_moves)][5])
             THEN SortByCount([possible_moves EXCEPT
                                 ![Len(possible_moves)] = <<x, y, w, h, count>>])
             ELSE possible_moves
        ELSE possible_moves

\* for w in range(w, WIDTH - x + 1)
RECURSIVE WLoop(_, _, _, _, _, _, _)
WLoop(g, cum, possible_moves, y, x, h, w) ==
    IF w > WIDTH - x THEN possible_moves
    ELSE The({WLoop(g, cum, next, y, x, h, w + 1) :
                next \in {EnumStep(g, cum, possible_moves, <<x, y, w, h>>)}})

\* the rectangles reaching the last row left out
last_h_short(y) == HEIGHT - y - 1

\* the greatest h of range(1, config.HEIGHT - y + 1) (line 95)
last_h(y) == HEIGHT - y

\* for h in range(h, HEIGHT - y + 1)
RECURSIVE HLoop(_, _, _, _, _, _)
HLoop(g, cum, possible_moves, y, x, h) ==
    IF h > last_h(y) THEN possible_moves
    ELSE The({HLoop(g, cum, next, y, x, h + 1) :
                next \in {WLoop(g, cum, possible_moves, y, x, h, 1)}})

\* for x in range(x, WIDTH)
RECURSIVE XLoop(_, _, _, _, _)
XLoop(g, cum, possible_moves, y, x) ==
    IF x >= WIDTH THEN possible_moves
    ELSE The({XLoop(g, cum, next, y, x + 1) :
                next \in {HLoop(g, cum, possible_moves, y, x, 1)}})

\* for y in range(y, HEIGHT)
RECURSIVE YLoop(_, _, _, _)
YLoop(g, cum, possible_moves, y) ==
    IF y >= HEIGHT THEN possible_moves
    ELSE The({YLoop(g, cum, next, y + 1) :
                next \in {XLoop(g, cum, possible_moves, y, 0)}})

\* possible_moves after the four nested loops (lines 92-121)
Enumerate(g) ==
    The({YLoop(grid, cum, <<>>, 0) : <<grid, cum>> \in {<<g, cum_sum(g)>>}})

\* ---------------------------------------------------------------------------
\* Replay of a Strategy (src/src/interfaces/file_interface.py, lines 91-112)
\* ---------------------------------------------------------------------------

\* update_grid_after_box (src/src/utils/grid_utils.py)
update_grid_after_box(g, box) ==
    [i \in 1..HEIGHT |-> [j \in 1..WIDTH |->
        IF <<i, j>> \in BoxCells(box.x, box.y, box.width, box.height)
        THEN 0 ELSE g[i][j]]]

RECURSIVE SimulateScore(_, _, _)
SimulateScore(current_grid, boxes, current_score) ==
    IF boxes = <<>> THEN current_score
    ELSE LET box == Head(boxes)
             box_score == CountNonZero(current_grid, box.x, box.y, box.width, box.height)
         IN  SimulateScore(update_grid_after_box(current_grid, box), Tail(boxes),
                           current_score + box_score)

RECURSIVE SimulateGrid(_, _)
SimulateGrid(current_grid, boxes) ==
    IF boxes = <<>> THEN current_grid
    ELSE SimulateGrid(update_grid_after_box(current_grid, Head(boxes)), Tail(boxes))

\* ---------------------------------------------------------------------------
\* State
\* ---------------------------------------------------------------------------

VARIABLES
    phase,                      \* "idle", "solving", "returned", "failed", "enumerating"
    arg,                        \* value of the caller's grid when solve was called
    heap,                       \* grid objects; heap[1] is the caller's grid
    stack,                      \* the _recurse frames, innermost last
    visited,                    \* set of grid hashes
    best_intermediate_scores,   \* index d + 1 holds the floor of depth d
    current_strategy,           \* [boxes |-> list reference, score |-> Int]
    best_strategy,              \* [boxes |-> list reference, score |-> Int]
    lists,                      \* Box list objects, by reference
    result,                     \* the Strategy solve returned
    history,                    \* <<grid, Strategy>> of each earlier invocation
    enum,                       \* the enumeration loops run on their own
    file,                       \* the problem file: its lines, split into tokens
    exits,                      \* how the _recurse calls made so far have ended
    todo                        \* the grids solve is still to be called on, one by one

vars == <<phase, arg, heap, stack, visited, best_intermediate_scores,
          current_strategy, best_strategy, lists, result, history, enum,
          file, exits, todo>>

EmptyStrategy == [boxes |-> <<>>, score |-> 0]

NoEnum == [pass |-> 0, at |-> <<0, 0, 1, 1>>, cum_sum |-> <<>>, possible_moves |-> <<>>,
           results |-> <<>>]

Init ==
    /\ phase = "idle"
    /\ arg = ZeroGrid
    /\ heap = <<>>
    /\ stack = <<>>
    /\ visited = {}
    /\ best_intermediate_scores = <<>>
    /\ current_strategy = [boxes |-> "cur", score |-> 0]
    /\ best_strategy = [boxes |-> "best", score |-> 0]
    /\ lists = [r \in {"cur", "best"} |-> <<>>]
    /\ result = EmptyStrategy
    /\ history = <<>>
    /\ enum = NoEnum
    /\ file = <<>>
    /\ exits = {}
    /\ todo = {}

\* ---------------------------------------------------------------------------
\* DFSSolver.solve, lines 26-33
\* ---------------------------------------------------------------------------

\* the visited set kept from the earlier call instead of created anew
StaleContext(old) ==
    [visited |-> old.visited,
     best_intermediate_scores |-> [d \in 1..MAX_NUM_MOVES |-> Inf],
     current_strategy |-> [boxes |-> "cur", score |-> 0],
     best_strategy |-> [boxes |-> "best", score |-> 0],
     lists |-> [r \in {"cur", "best"} |-> <<>>]]

\* the objects solve creates (lines 26-29); old is what an earlier call left
NewContext(old) ==
    [visited |-> {},
     best_intermediate_scores |-> [d \in 1..MAX_NUM_MOVES |-> Inf],
     current_strategy |-> [boxes |-> "cur", score |-> 0],
     best_strategy |-> [boxes |-> "best", score |-> 0],
     lists |-> [r \in {"cur", "best"} |-> <<>>]]

Frame(ref, num_moves) ==
    [grid |-> ref, num_moves |-> num_moves, pc |-> "enter", exit |-> "none",
     possible_moves |-> <<>>, k |-> 0, count |-> 0]

Call(grid) ==
    LET ctx == NewContext([visited |-> visited,
                           best_intermediate_scores |-> best_intermediate_scores,
                           current_strategy |-> current_strategy,
                           best_strategy |-> best_strategy,
                           lists |-> lists])
    IN  /\ phase' = "solving"
        /\ arg' = grid
        /\ heap' = <<grid>>
        /\ visited' = ctx.visited
        /\ best_intermediate_scores' = ctx.best_intermediate_scores
        /\ current_strategy' = ctx.current_strategy
        /\ best_strategy' = ctx.best_strategy
        /\ lists' = ctx.lists
        /\ stack' = <<Frame(1, 0)>>
        /\ UNCHANGED <<result, enum, file, exits>>

\* the first solve invocation, on a grid of `inputs`
Solve(inputs) ==
    /\ phase = "idle"
    /\ UNCHANGED <<history, todo>>
    /\ \E grid \in inputs : Call(grid)

\* a later solve invocation on the same solver
SolveAgain(inputs) ==
    /\ phase = "returned"
    /\ Len(history) + 1 < MaxSolves
    /\ history' = Append(history, <<arg, result>>)
    /\ todo' = todo
    /\ \E grid \in inputs : Call(grid)

\* ---------------------------------------------------------------------------
\* DFSSolver._recurse
\* ---------------------------------------------------------------------------

Top == stack[Len(stack)]

Finished(f) == f.pc = "return" \/ (f.pc = "loop" /\ f.k > Len(f.possible_moves))

\* the comparison of line 56 the wrong way round
is_worse(current_score, best_score) == current_score < best_score

\* current_strategy.score > best_strategy.score (line 56)
is_better(current_score, best_score) == current_score > best_score

\* best_strategy.boxes = current_strategy.boxes: no copy, best shares the
\* list object of the in-progress Strategy
ListAlias(ls, src) == [lists |-> ls, ref |-> src]

\* boxes.copy() (line 57): a new list object takes the place of best's list
ListCopy(ls, src) == [lists |-> [ls EXCEPT !["best"] = ls[src]], ref |-> "best"]

\* new_grid = grid: no copy, the child shares the grid object of its parent
GridAlias(hp, ref) == [heap |-> hp, ref |-> ref]

\* [row.copy() for row in grid] (line 126): a new grid object
GridCopy(hp, ref) == [heap |-> Append(hp, hp[ref]), ref |-> Len(hp) + 1]

\* the floor of the node's own depth read at line 63
own_depth(num_moves) == num_moves

\* num_moves - 1 (line 63): the depth whose floor the bound check reads
bound_depth(num_moves) == num_moves - 1

\* the floor overwritten with the score of the latest node
floor_overwrite(floor, score) == score

\* min(best_intermediate_scores[num_moves], current_strategy.score)
\* (lines 66-68)
floor_update(floor, score) == Min(floor, score)

\* the fingerprint marked ahead of the cap check
mark_before_cap(seen, grid_hash) == seen \cup {grid_hash}

\* the return of line 77 comes before visited.add (line 79): the set is left
\* as it is
return_at_cap(seen, grid_hash) == seen

\* the best update placed after the checks: only an expanded node updates
update_if_expanded(better, pruned) == better /\ ~pruned

\* the best update stands at lines 56-58, before the checks of lines 61-77:
\* whether it is applied does not depend on their outcome
update_on_entry(better, pruned) == better

\* lines 55-121: best update, the three pruning checks, the enumeration
Enter(cap) ==
    /\ phase = "solving"
    /\ stack # <<>>
    /\ Top.pc = "enter"
    /\ LET f == Top
           top == Len(stack)
           grid_hash == hash_grid(heap[f.grid])
           pruned == \/ /\ f.num_moves > 0
                        /\ current_strategy.score <
                               best_intermediate_scores[bound_depth(f.num_moves) + 1]
                     \/ grid_hash \in visited
                     \/ Cardinality(visited) > cap
           better == update_on_entry(
                         is_better(current_strategy.score, best_strategy.score),
                         pruned)
           c == ListCopy(lists, current_strategy.boxes)
           Return(why) ==
               /\ stack' = [stack EXCEPT ![top].pc = "return", ![top].exit = why]
               /\ exits' = exits \cup {why}
       IN  /\ lists' = IF better THEN c.lists ELSE lists
           /\ best_strategy' = IF better
                               THEN [boxes |-> c.ref, score |-> current_strategy.score]
                               ELSE best_strategy
           /\ IF /\ f.num_moves > 0
                 /\ current_strategy.score <
                        best_intermediate_scores[bound_depth(f.num_moves) + 1]
              THEN /\ Return("bound")
                   /\ UNCHANGED <<phase, visited, best_intermediate_scores>>
              ELSE IF f.num_moves + 1 > MAX_NUM_MOVES
              THEN \* IndexError at line 66
                   /\ phase' = "failed"
                   /\ UNCHANGED <<stack, visited, best_intermediate_scores, exits>>
              ELSE /\ best_intermediate_scores' =
                          [best_intermediate_scores EXCEPT ![f.num_moves + 1] =
                              floor_update(@, current_strategy.score)]
                   /\ phase' = phase
                   /\ IF grid_hash \in visited
                      THEN Return("dedup") /\ visited' = visited
                      ELSE IF Cardinality(visited) > cap
                      THEN /\ Return("cap")
                           /\ visited' = return_at_cap(visited, grid_hash)
                      ELSE /\ visited' = visited \cup {grid_hash}
                           /\ exits' = exits \cup {"expanded"}
                           /\ stack' = [stack EXCEPT
                                  ![top].pc = "loop",
                                  ![top].k = 1,
                                  ![top].possible_moves = Enumerate(heap[f.grid])]
    /\ UNCHANGED <<arg, heap, current_strategy, result, history, enum, file, todo>>

\* only the last cell of the rectangle set to zero
zero_last(g, x, y, w, h) ==
    [i \in 1..HEIGHT |-> [j \in 1..WIDTH |->
        IF <<i, j>> = <<y + h, x + w>> THEN 0 ELSE g[i][j]]]

\* lines 127-129: new_grid[i][j] = 0 for the cells of the rectangle
zero_box(g, x, y, w, h) ==
    [i \in 1..HEIGHT |-> [j \in 1..WIDTH |->
        IF <<i, j>> \in BoxCells(x, y, w, h) THEN 0 ELSE g[i][j]]]

\* the count taken as the area of the rectangle, zero cells included
box_area(g, x, y, w, h) == w * h

\* the count of lines 134-136, read from the calling frame's grid
box_count(g, x, y, w, h) == CountNonZero(g, x, y, w, h)

\* the count read from the grid the rectangle has been zeroed in
counted_new_grid(grid, new_grid) == new_grid

\* the count of lines 134-136 reads grid, the grid of the calling frame, not
\* new_grid
counted_grid(grid, new_grid) == grid

\* the child called with the depth of its parent
same_depth(num_moves) == num_moves

\* num_moves + 1 (line 144): the depth passed to the recursive call
child_depth(num_moves) == num_moves + 1

\* lines 124-147: one iteration of the loop over possible_moves, up to the call
Descend ==
    /\ phase = "solving"
    /\ stack # <<>>
    /\ Top.pc = "loop"
    /\ Top.k <= Len(Top.possible_moves)
    /\ LET f == Top
           top == Len(stack)
           m == f.possible_moves[f.k]
           x == m[1]
           y == m[2]
           w == m[3]
           h == m[4]
           new_grid == GridCopy(heap, f.grid)
           box == [x |-> x, y |-> y, width |-> w, height |-> h]
           zeroed == [new_grid.heap EXCEPT ![new_grid.ref] = zero_box(@, x, y, w, h)]
           count == box_count(zeroed[counted_grid(f.grid, new_grid.ref)], x, y, w, h)
       IN  /\ heap' = zeroed
           /\ lists' = [lists EXCEPT ![current_strategy.boxes] = Append(@, box)]
           /\ current_strategy' = [current_strategy EXCEPT !.score = @ + count]
           /\ stack' = Append([stack EXCEPT ![top].pc = "backtrack", ![top].count = count],
                              Frame(new_grid.ref, child_depth(f.num_moves)))
    /\ UNCHANGED <<phase, arg, visited, best_intermediate_scores, best_strategy,
                   result, history, enum, file, exits, todo>>

\* the grid references still held once the innermost frame is gone
LiveRefs(stk) == {1} \cup {stk[i].grid : i \in 1..Len(stk)}

MaxOf(S) == CHOOSE m \in S : \A n \in S : n <= m

\* the score left as the candidate's call found it
keep_score(score, count) == score

\* current_strategy.score -= count (line 151)
pop_score(score, count) == score - count

\* the recursive call returns; lines 150-151 of the calling frame
Backtrack ==
    /\ phase = "solving"
    /\ Len(stack) >= 2
    /\ Finished(Top)
    /\ LET rest == SubSeq(stack, 1, Len(stack) - 1)
           p == rest[Len(rest)]
       IN  /\ lists' = [lists EXCEPT ![current_strategy.boxes] =
                           SubSeq(@, 1, Len(@) - 1)]
           /\ current_strategy' = [current_strategy EXCEPT
                                      !.score = pop_score(@, p.count)]
           /\ stack' = [rest EXCEPT ![Len(rest)].pc = "loop", ![Len(rest)].k = p.k + 1]
           /\ heap' = SubSeq(heap, 1, MaxOf(LiveRefs(rest)))
    /\ UNCHANGED <<phase, arg, visited, best_intermediate_scores, best_strategy,
                   result, history, enum, file, exits, todo>>

\* the outermost _recurse returns; solve returns best_strategy (line 35)
Finish ==
    /\ phase = "solving"
    /\ Len(stack) = 1
    /\ Finished(Top)
    /\ phase' = "returned"
    /\ stack' = <<>>
    /\ result' = [boxes |-> lists[best_strategy.boxes], score |-> best_strategy.score]
    /\ UNCHANGED <<arg, heap, visited, best_intermediate_scores, current_strategy,
                   best_strategy, lists, history, enum, file, exits, todo>>

Next ==
    \/ Solve(Grids)
    \/ Enter(VisitedCap)
    \/ Descend
    \/ Backtrack
    \/ Finish

Spec == Init /\ [][Next]_vars

\* the search is one synchronous call: a step that can be taken is taken
FairSpec == Spec /\ WF_vars(Next)

\* ---------------------------------------------------------------------------
\* The search with the cap of line 76 scaled down, as HEIGHT and WIDTH are
\* ---------------------------------------------------------------------------

\* stands for the 1000 of line 76 on grids too small to have 1000 descendants
SmallCap == 3

NextCap ==
    \/ Solve(FiveGrids \cup {FullFives})
    \/ Enter(SmallCap)
    \/ Descend
    \/ Backtrack
    \/ Finish

SpecCap == Init /\ [][NextCap]_vars

\* ---------------------------------------------------------------------------
\* solve on one grid, then on each grid of a batch in turn
\* ---------------------------------------------------------------------------

BatchGrids == RepeatGrids \cup OnesGrids \cup {FullFives}

InitBatch ==
    /\ phase = "idle"
    /\ arg = ZeroGrid
    /\ heap = <<>>
    /\ stack = <<>>
    /\ visited = {}
    /\ best_intermediate_scores = <<>>
    /\ current_strategy = [boxes |-> "cur", score |-> 0]
    /\ best_strategy = [boxes |-> "best", score |-> 0]
    /\ lists = [r \in {"cur", "best"} |-> <<>>]
    /\ result = EmptyStrategy
    /\ history = <<>>
    /\ enum = NoEnum
    /\ file = <<>>
    /\ exits = {}
    /\ todo = BatchGrids

\* solve is called on the next grid of the batch
SolveNext ==
    /\ phase = "returned"
    /\ todo # {}
    /\ LET grid == CHOOSE g \in todo : TRUE
       IN  /\ Call(grid)
           /\ todo' = todo \ {grid}
    /\ history' = history

BatchDone == phase = "returned" /\ todo = {}

NextBatch ==
    \/ Solve(Grids)
    \/ SolveNext
    \/ Enter(VisitedCap)
    \/ Descend
    \/ Backtrack
    \/ Finish

SpecBatch == InitBatch /\ [][NextBatch]_vars

\* ---------------------------------------------------------------------------
\* Several solve invocations on one solver
\* ---------------------------------------------------------------------------

NextRepeat ==
    \/ Solve(RepeatGrids)
    \/ SolveAgain(RepeatGrids)
    \/ Enter(VisitedCap)
    \/ Descend
    \/ Backtrack
    \/ Finish

SpecRepeat == Init /\ [][NextRepeat]_vars

\* ---------------------------------------------------------------------------
\* The enumeration (lines 82-121) on its own, one rectangle per step
\* ---------------------------------------------------------------------------

\* inputs of the enumeration: fives, runs, and general grids with an empty second row
EnumGrids ==
    FiveGrids \cup RunGrids
        \cup {g \in GeneralGrids : \A j \in 1..WIDTH : g[2][j] = 0}

\* number of times the enumeration is run on the same grid
EnumPasses == 2

InitEnum ==
    /\ phase = "enumerating"
    /\ arg \in EnumGrids
    /\ heap = <<arg>>
    /\ stack = <<>>
    /\ visited = {}
    /\ best_intermediate_scores = <<>>
    /\ current_strategy = [boxes |-> "cur", score |-> 0]
    /\ best_strategy = [boxes |-> "best", score |-> 0]
    /\ lists = [r \in {"cur", "best"} |-> <<>>]
    /\ result = EmptyStrategy
    /\ history = <<>>
    /\ enum = NoEnum
    /\ file = <<>>
    /\ exits = {}
    /\ todo = {}

\* the list of the previous run kept instead of an empty one
old_possible_moves(old) == old

\* possible_moves = [] (line 92); old is the list of the previous run
new_possible_moves(old) == <<>>

\* the loop variables <<y, x, h, w>> of the iteration after <<y, x, h, w>>
Advance(y, x, h, w) ==
    IF w + 1 <= WIDTH - x THEN <<y, x, h, w + 1>>
    ELSE IF h + 1 <= HEIGHT - y THEN <<y, x, h + 1, 1>>
    ELSE IF x + 1 < WIDTH THEN <<y, x + 1, 1, 1>>
    ELSE <<y + 1, 0, 1, 1>>

EnumRunning == enum.pass >= 1 /\ enum.at[1] < HEIGHT

\* lines 82-92: the cumulative sums and the empty list
EnumStart ==
    /\ phase = "enumerating"
    /\ ~EnumRunning
    /\ enum.pass < EnumPasses
    /\ enum' = [pass |-> enum.pass + 1,
                at |-> <<0, 0, 1, 1>>,
                cum_sum |-> cum_sum(heap[1]),
                possible_moves |-> new_possible_moves(enum.possible_moves),
                results |-> IF enum.pass = 0 THEN <<>>
                            ELSE Append(enum.results, enum.possible_moves)]
    /\ UNCHANGED <<phase, arg, heap, stack, visited, best_intermediate_scores,
                   current_strategy, best_strategy, lists, result, history,
                   file, exits, todo>>

\* lines 97-121: the body of the innermost loop, for one rectangle
EnumLoop ==
    /\ phase = "enumerating"
    /\ EnumRunning
    /\ LET y == enum.at[1]
           x == enum.at[2]
           h == enum.at[3]
           w == enum.at[4]
       IN  enum' = [enum EXCEPT
                      !.possible_moves = EnumStep(heap[1], enum.cum_sum, @, <<x, y, w, h>>),
                      !.at = Advance(y, x, h, w)]
    /\ UNCHANGED <<phase, arg, heap, stack, visited, best_intermediate_scores,
                   current_strategy, best_strategy, lists, result, history,
                   file, exits, todo>>

NextEnum == EnumStart \/ EnumLoop

SpecEnum == InitEnum /\ [][NextEnum]_vars

\* the step-by-step enumeration ends with the list the search node uses
EnumLoopsAgree ==
    (phase = "enumerating" /\ enum.pass >= 1 /\ ~EnumRunning)
        => enum.possible_moves = Enumerate(heap[1])

\* ---------------------------------------------------------------------------
\* The dedup check (lines 71-79) on two grids: the first is marked, the second
\* is looked up
\* ---------------------------------------------------------------------------

\* the cells the grids of the dedup check differ in: the first and the last four
HashCells == {<<1, 1>>} \cup {<<HEIGHT, j>> : j \in (WIDTH - 3)..WIDTH}

\* grids with 0, 1 or 9 in each of these cells
HashGrids == {GridOf(a) : a \in [HashCells -> {0, 1, 9}]}

InitHash ==
    /\ phase = "hashing"
    /\ heap \in HashGrids \X HashGrids
    /\ arg = heap[1]
    /\ stack = <<>>
    /\ visited = {}
    /\ best_intermediate_scores = <<>>
    /\ current_strategy = [boxes |-> "cur", score |-> 0]
    /\ best_strategy = [boxes |-> "best", score |-> 0]
    /\ lists = [r \in {"cur", "best"} |-> <<>>]
    /\ result = EmptyStrategy
    /\ history = <<>>
    /\ enum = NoEnum
    /\ file = <<>>
    /\ exits = {}
    /\ todo = {}

\* lines 71-79 for the first grid: not in the empty set, so it is marked
HashMark ==
    /\ phase = "hashing"
    /\ visited = {}
    /\ visited' = {hash_grid(heap[1])}
    /\ UNCHANGED <<phase, arg, heap, stack, best_intermediate_scores, current_strategy,
                   best_strategy, lists, result, history, enum, file, exits, todo>>

\* lines 71-73 for the second grid
HashCheck ==
    /\ phase = "hashing"
    /\ visited # {}
    /\ phase' = "hashed"
    /\ exits' = IF hash_grid(heap[2]) \in visited THEN {"dedup"} ELSE {"expanded"}
    /\ UNCHANGED <<arg, heap, stack, visited, best_intermediate_scores, current_strategy,
                   best_strategy, lists, result, history, enum, file, todo>>

NextHash == HashMark \/ HashCheck

SpecHash == InitHash /\ [][NextHash]_vars

\* ---------------------------------------------------------------------------
\* The file-based path: read_problem_from_file (src/src/utils/grid_utils.py)
\* and run_from_problem_file (src/src/interfaces/file_interface.py; the same
\* code stands in src/test.py)
\* ---------------------------------------------------------------------------

\* A file is the sequence of its lines, a line the sequence of the tokens
\* line.strip().split() gives, a token the sequence of its characters.
Chars == {"0", "1", "5", "-", "x"}

Tokens == {<<c>> : c \in Chars} \cup {<<c, d>> : <<c, d>> \in Chars \X Chars}

ZeroRow(n) == [j \in 1..n |-> <<"0">>]

\* lines: empty, or one column short, right or long; all "0" but at most one token
RowShapes ==
    UNION {{ZeroRow(n)} \cup {[ZeroRow(n) EXCEPT ![j] = t] : <<j, t>> \in (1..n) \X Tokens} :
           n \in {0} \cup ((WIDTH - 1)..(WIDTH + 1))}

ZeroFile(k) == [i \in 1..k |-> ZeroRow(WIDTH)]

\* files: one row short, right or long, or empty; at most one line is not
\* a row of WIDTH tokens "0"
Files ==
    UNION {{ZeroFile(k)} \cup {[ZeroFile(k) EXCEPT ![i] = r] : <<i, r>> \in (1..k) \X RowShapes} :
           k \in 0..(HEIGHT + 1)}

digit(c) == CASE c = "0" -> 0 [] c = "1" -> 1 [] c = "5" -> 5

is_digit(c) == c \in {"0", "1", "5"}

\* the digits of a token: what follows its sign
digits(tok) == IF tok # <<>> /\ tok[1] = "-" THEN Tail(tok) ELSE tok

\* int(val) raises ValueError unless val is digits after an optional sign
is_int(tok) ==
    /\ digits(tok) # <<>>
    /\ \A n \in 1..Len(digits(tok)) : is_digit(digits(tok)[n])

\* the number the first n of the digits ds denote
RECURSIVE number(_, _)
number(ds, n) == IF n = 0 THEN 0 ELSE number(ds, n - 1) * 10 + digit(ds[n])

\* int(val)
int(tok) ==
    IF tok[1] = "-" THEN 0 - number(digits(tok), Len(digits(tok)))
    ELSE number(digits(tok), Len(digits(tok)))

None == [none |-> TRUE]

\* len(grid) != config.HEIGHT (line 63)
wrong_rows(grid) == Len(grid) # HEIGHT

\* the column count taken as wrong only when the row is too short
too_few_columns(row) == Len(row) < WIDTH

\* len(row) != config.WIDTH (line 68)
wrong_columns(row) == Len(row) # WIDTH

\* read_problem_from_file: None, or the grid
read_problem_from_file(f) ==
    IF \E i \in 1..Len(f) : \E j \in 1..Len(f[i]) : ~is_int(f[i][j])
    THEN None                   \* ValueError, caught at line 73
    ELSE LET grid == [i \in 1..Len(f) |-> [j \in 1..Len(f[i]) |-> int(f[i][j])]]
         IN  IF wrong_rows(grid) THEN None
             ELSE IF \E i \in 1..Len(grid) : wrong_columns(grid[i]) THEN None
             ELSE [none |-> FALSE, grid |-> grid]

InitFile ==
    /\ phase = "file"
    /\ file \in Files
    /\ arg = ZeroGrid
    /\ heap = <<>>
    /\ stack = <<>>
    /\ visited = {}
    /\ best_intermediate_scores = <<>>
    /\ current_strategy = [boxes |-> "cur", score |-> 0]
    /\ best_strategy = [boxes |-> "best", score |-> 0]
    /\ lists = [r \in {"cur", "best"} |-> <<>>]
    /\ result = EmptyStrategy
    /\ history = <<>>
    /\ enum = NoEnum
    /\ exits = {}
    /\ todo = {}

\* run_from_problem_file, lines 35-52: read the file; return None, or call
\* the solver on the grid
RunFromProblemFile ==
    /\ phase = "file"
    /\ LET grid == read_problem_from_file(file)
       IN  IF grid.none
           THEN /\ phase' = "rejected"
                /\ UNCHANGED <<arg, heap, stack, visited, best_intermediate_scores,
                               current_strategy, best_strategy, lists, result, enum,
                               file, exits>>
           ELSE Call(grid.grid)
    /\ UNCHANGED <<history, todo>>

NextFile ==
    \/ RunFromProblemFile
    \/ Enter(VisitedCap)
    \/ Descend
    \/ Backtrack
    \/ Finish

SpecFile == InitFile /\ [][NextFile]_vars

\* ---------------------------------------------------------------------------
\* QUBOSolver._determine_optimal_box_order (src/src/algorithms/qubo_solver.py)
\* ---------------------------------------------------------------------------

\* most boxes handed to the ordering
MaxBoxes == 2

\* grids of the ordering: tiles valued 5 in the top-left 2 x 3 corner
OrderGrids == {GridOf([c \in S |-> 5]) : S \in SUBSET ((1..2) \X (1..3))}

\* every box counted as draggable
can_drag_any(g, box) == TRUE

\* _can_drag_box: no cell of the box is 0
can_drag_box(g, box) ==
    \A c \in BoxCells(box.x, box.y, box.width, box.height) : g[c[1]][c[2]] # 0

\* _count_blocking_boxes: the other boxes that hold a 0 once box is applied
count_blocking_boxes(g, box, remaining_boxes) ==
    LET temp_grid == zero_box(g, box.x, box.y, box.width, box.height)
    IN  Cardinality({n \in 1..Len(remaining_boxes) :
                        /\ remaining_boxes[n] # box
                        /\ ~can_drag_box(temp_grid, remaining_boxes[n])})

\* the positions in remaining_boxes of the boxes of valid_boxes (lines 141-151)
valid_boxes(g, remaining_boxes) ==
    {n \in 1..Len(remaining_boxes) : can_drag_box(g, remaining_boxes[n])}

\* valid_boxes.sort(key=...) is stable: valid_boxes[0] is the first of the
\* valid boxes that blocks the fewest (lines 160-161)
next_box(g, remaining_boxes) ==
    LET valid == valid_boxes(g, remaining_boxes)
        blocks(n) == count_blocking_boxes(g, remaining_boxes[n], remaining_boxes)
        first == CHOOSE n \in valid :
                    \A m \in valid : blocks(n) < blocks(m) \/ (blocks(n) = blocks(m) /\ n <= m)
    IN  remaining_boxes[first]

\* list.remove: the first entry equal to box goes
remove(boxes, box) ==
    LET n == CHOOSE k \in 1..Len(boxes) :
                 boxes[k] = box /\ \A m \in 1..(k - 1) : boxes[m] # box
    IN  SubSeq(boxes, 1, n - 1) \o SubSeq(boxes, n + 1, Len(boxes))

\* the rectangles of g that sum to 10, as Boxes
Sum10BoxesOf(g) ==
    {[x |-> x, y |-> y, width |-> w, height |-> h] :
        <<x, y, w, h>> \in
            {r \in (0..(WIDTH - 1)) \X (0..(HEIGHT - 1)) \X (1..WIDTH) \X (1..HEIGHT) :
                /\ r[1] + r[3] <= WIDTH
                /\ r[2] + r[4] <= HEIGHT
                /\ cum_sum(g)[r[2] + r[4]][r[1] + r[3]] - cum_sum(g)[r[2] + r[4]][r[1]]
                       - cum_sum(g)[r[2]][r[1] + r[3]] + cum_sum(g)[r[2]][r[1]] = 10}}

\* the lists of at most MaxBoxes Boxes of S
BoxLists(S) == UNION {[1..n -> S] : n \in 0..MaxBoxes}

\* lines 135-137: the call, on a grid and a list of its sum-10 boxes
InitOrder ==
    /\ phase = "ordering"
    /\ arg \in OrderGrids
    /\ heap = <<arg, arg>>      \* grid, current_grid
    /\ \E boxes \in BoxLists(Sum10BoxesOf(arg)) :
          lists = [boxes |-> boxes, remaining_boxes |-> boxes, ordered_boxes |-> <<>>]
    /\ stack = <<>>
    /\ visited = {}
    /\ best_intermediate_scores = <<>>
    /\ current_strategy = [boxes |-> "cur", score |-> 0]
    /\ best_strategy = [boxes |-> "best", score |-> 0]
    /\ result = EmptyStrategy
    /\ history = <<>>
    /\ enum = NoEnum
    /\ file = <<>>
    /\ exits = {}
    /\ todo = {}

\* lines 139-169: one iteration of the while loop
OrderStep ==
    /\ phase = "ordering"
    /\ lists.remaining_boxes # <<>>
    /\ IF valid_boxes(heap[2], lists.remaining_boxes) = {}
       THEN \* lines 153-157: extend and break; line 171
            /\ lists' = [lists EXCEPT !.ordered_boxes = @ \o lists.remaining_boxes]
            /\ phase' = "ordered"
            /\ heap' = heap
       ELSE LET box == next_box(heap[2], lists.remaining_boxes)
            IN  /\ lists' = [lists EXCEPT !.ordered_boxes = Append(@, box),
                                          !.remaining_boxes = remove(@, box)]
                /\ heap' = [heap EXCEPT ![2] = zero_box(@, box.x, box.y, box.width, box.height)]
                /\ phase' = phase
    /\ UNCHANGED <<arg, stack, visited, best_intermediate_scores, current_strategy,
                   best_strategy, result, history, enum, file, exits, todo>>

\* lines 139, 171: the loop ends, ordered_boxes is returned
OrderReturn ==
    /\ phase = "ordering"
    /\ lists.remaining_boxes = <<>>
    /\ phase' = "ordered"
    /\ UNCHANGED <<arg, heap, stack, visited, best_intermediate_scores, current_strategy,
                   best_strategy, lists, result, history, enum, file, exits, todo>>

NextOrder == OrderStep \/ OrderReturn

SpecOrder == InitOrder /\ [][NextOrder]_vars

\* ---------------------------------------------------------------------------
\* Properties
\* ---------------------------------------------------------------------------

RECURSIVE SumSeq(_)
SumSeq(vals) == IF vals = <<>> THEN 0 ELSE Head(vals) + SumSeq(Tail(vals))

\* the sum of the cells of g inside the rectangle, cell by cell
RECURSIVE BoxSum(_, _, _, _, _)
BoxSum(g, x, y, w, h) ==
    IF h = 0 THEN 0
    ELSE SumSeq(SubSeq(g[y + h], x + 1, x + w)) + BoxSum(g, x, y, w, h - 1)

GridSum(g) == BoxSum(g, 0, 0, WIDTH, HEIGHT)

InGrid(x, y, w, h) ==
    /\ x >= 0
    /\ y >= 0
    /\ w >= 1
    /\ h >= 1
    /\ x + w <= WIDTH
    /\ y + h <= HEIGHT

\* every rectangle <<x, y, w, h>> inside the grid
AllBoxes ==
    {r \in (0..(WIDTH - 1)) \X (0..(HEIGHT - 1)) \X (1..WIDTH) \X (1..HEIGHT) :
        InGrid(r[1], r[2], r[3], r[4])}

Sum10Boxes(g) == {r \in AllBoxes : BoxSum(g, r[1], r[2], r[3], r[4]) = 10}

HasSum10Rect(g) == Sum10Boxes(g) # {}

\* every Box is a legal move on the grid left by the Boxes before it
RECURSIVE ReplayValid(_, _)
ReplayValid(g, boxes) ==
    IF boxes = <<>> THEN TRUE
    ELSE LET box == Head(boxes)
         IN  /\ InGrid(box.x, box.y, box.width, box.height)
             /\ BoxSum(g, box.x, box.y, box.width, box.height) = 10
             /\ ReplayValid(update_grid_after_box(g, box), Tail(boxes))

\* C1: every Box of the returned Strategy lies inside the grid, is at least
\* 1 x 1, and sums to exactly 10 on the grid left by the Boxes before it.
C1_BoxesValidOnReplay ==
    phase = "returned" => ReplayValid(arg, result.boxes)

\* a returned Strategy of several Boxes, one of which sums to more than 10 on
\* the initial grid: it is legal only on the grid the earlier Boxes left
C1_Witness ==
    /\ phase = "returned"
    /\ Len(result.boxes) >= 2
    /\ \E i \in 1..Len(result.boxes) :
          LET box == result.boxes[i]
          IN  BoxSum(arg, box.x, box.y, box.width, box.height) > 10

\* C2: the returned score is the score of replaying the returned Boxes in
\* order on a copy of the initial grid, counting the cells that are non-zero
\* when each Box is applied.
C2_ScoreIsReplayScore ==
    phase = "returned" => result.score = SimulateScore(arg, result.boxes, 0)

\* the score counted on the initial grid, ignoring what earlier Boxes removed
RECURSIVE InitialCounts(_, _)
InitialCounts(g, boxes) ==
    IF boxes = <<>> THEN 0
    ELSE LET box == Head(boxes)
         IN  CountNonZero(g, box.x, box.y, box.width, box.height)
                 + InitialCounts(g, Tail(boxes))

\* a returned Strategy with a Box over cells an earlier Box had already emptied
C2_Witness ==
    /\ phase = "returned"
    /\ result.score > 0
    /\ result.score < InitialCounts(arg, result.boxes)

\* C3: on a grid with at least one rectangle summing to 10, the returned
\* Strategy has a non-zero score and at least one Box.
C3_ScoreNotZero ==
    (phase = "returned" /\ HasSum10Rect(arg))
        => (result.score # 0 /\ result.boxes # <<>>)

\* solve returned on a grid with exactly one sum-10 rectangle
C3_Witness ==
    /\ phase = "returned"
    /\ Cardinality(Sum10Boxes(arg)) = 1
    /\ result.score > 0

\* C4: a solve invocation returns what every earlier invocation on the same
\* grid returned, and starts from an empty visited set, an all-infinite floor
\* array, and empty in-progress and best Strategies.
C4_SolveIsDeterministic ==
    /\ phase = "returned" =>
          \A i \in 1..Len(history) : history[i][1] = arg => history[i][2] = result
    /\ (phase = "solving" /\ Len(stack) = 1 /\ Top.pc = "enter") =>
          /\ visited = {}
          /\ best_intermediate_scores = [d \in 1..MAX_NUM_MOVES |-> Inf]
          /\ current_strategy.score = 0
          /\ best_strategy.score = 0
          /\ lists[current_strategy.boxes] = <<>>
          /\ lists[best_strategy.boxes] = <<>>

\* a second invocation on the grid of the first returned a Strategy of two Boxes
C4_Witness ==
    /\ phase = "returned"
    /\ Len(result.boxes) >= 2
    /\ \E i \in 1..Len(history) : history[i][1] = arg

\* C5: on a grid without any rectangle summing to 10 solve does not fail and
\* returns the empty Strategy.
C5_EmptyStrategyWithoutMoves ==
    ~HasSum10Rect(arg) =>
        /\ phase # "failed"
        /\ phase = "returned" => result = EmptyStrategy

\* solve returned on a grid that has tiles summing to 10 or more, none of
\* whose rectangles sums to 10
C5_Witness ==
    /\ phase = "returned"
    /\ GridSum(arg) >= 10
    /\ ~HasSum10Rect(arg)
    /\ result = EmptyStrategy

\* C6: every solve invocation returns.
C6_SolveTerminates == <>(phase = "returned")

\* solve returned after a search at least three moves deep
C6_Witness ==
    /\ phase = "returned"
    /\ Len(result.boxes) >= 3

\* C7: at every point of the enumeration the candidate list has at most D
\* entries, each an in-bounds rectangle summing to 10 with its count of
\* non-zero cells.
C7_CandidatesBounded ==
    phase = "enumerating" =>
        /\ Len(enum.possible_moves) <= D
        /\ \A i \in 1..Len(enum.possible_moves) :
              LET m == enum.possible_moves[i]
              IN  /\ InGrid(m[1], m[2], m[3], m[4])
                  /\ BoxSum(heap[1], m[1], m[2], m[3], m[4]) = 10
                  /\ m[5] = CountNonZero(heap[1], m[1], m[2], m[3], m[4])

\* <<y, x, h, w>>, the order of the four loops, of rectangle <<x, y, w, h>>
LoopKey(r) == <<r[2], r[1], r[4], r[3]>>

LexLess(a, b) ==
    \E n \in 1..4 : a[n] < b[n] /\ \A m \in 1..(n - 1) : a[m] = b[m]

\* the list is full and one of the first D sum-10 rectangles the loops met
\* is no longer in it: a rectangle of smaller count has displaced it
C7_Witness ==
    /\ phase = "enumerating"
    /\ Len(enum.possible_moves) = D
    /\ \E r \in Sum10Boxes(heap[1]) :
          /\ LexLess(LoopKey(r), enum.at)
          /\ Cardinality({q \in Sum10Boxes(heap[1]) : LexLess(LoopKey(q), LoopKey(r))}) < D
          /\ \A i \in 1..D :
                <<enum.possible_moves[i][1], enum.possible_moves[i][2],
                  enum.possible_moves[i][3], enum.possible_moves[i][4]>> # r

\* C8: a second run of the enumeration on the same grid ends with the list
\* of the first run, and the enumeration leaves the grid as it was.
C8_EnumerationRepeats ==
    phase = "enumerating" =>
        /\ heap = <<arg>>
        /\ (enum.pass >= 2 /\ ~EnumRunning) =>
              \A i \in 1..Len(enum.results) : enum.results[i] = enum.possible_moves

\* the second run has ended with a full list of mixed counts
C8_Witness ==
    /\ phase = "enumerating"
    /\ enum.pass = 2
    /\ ~EnumRunning
    /\ Len(enum.possible_moves) = D
    /\ enum.possible_moves[1][5] < enum.possible_moves[D][5]

\* C9: the caller's grid keeps the value it had at the call, and the grid of
\* every node is the initial grid with the Boxes on the path to it zeroed,
\* whatever its children did: a child differs from its parent's grid exactly
\* by the chosen rectangle.
C9_GridsNotModified ==
    /\ phase \in {"solving", "returned"} => heap[1] = arg
    /\ phase = "solving" =>
          \A i \in 1..Len(stack) :
              /\ i - 1 <= Len(lists[current_strategy.boxes])
              /\ heap[stack[i].grid] =
                     SimulateGrid(arg, SubSeq(lists[current_strategy.boxes], 1, i - 1))

\* a node two moves deep is back in its loop after one of its children returned
C9_Witness ==
    /\ phase = "solving"
    /\ Len(stack) >= 3
    /\ Top.pc = "loop"
    /\ Top.k >= 2

\* the only tiles are 1, 2, 3 and 4, all in one row
IsRunGrid(g) ==
    LET tiles == {c \in Cells : g[c[1]][c[2]] # 0}
    IN  /\ Cardinality(tiles) = 4
        /\ \A p, q \in tiles : p[1] = q[1]
        /\ {g[c[1]][c[2]] : c \in tiles} = {1, 2, 3, 4}

\* C10: on a grid whose only tiles are 1, 2, 3 and 4 in one row, solve
\* returns exactly one Box, which covers the four tiles, and score 4.
C10_RunOfOneToFour ==
    (phase = "returned" /\ IsRunGrid(arg)) =>
        /\ Len(result.boxes) = 1
        /\ result.score = 4
        /\ LET box == result.boxes[1]
           IN  \A c \in Cells :
                  arg[c[1]][c[2]] # 0
                      => c \in BoxCells(box.x, box.y, box.width, box.height)

\* solve returned on such a grid whose tiles are not next to each other, with
\* a Box that also covers empty cells
C10_Witness ==
    /\ phase = "returned"
    /\ IsRunGrid(arg)
    /\ Len(result.boxes) = 1
    /\ result.boxes[1].width * result.boxes[1].height > 4
    /\ \E j \in 2..(WIDTH - 1) :
          \E i \in 1..HEIGHT : arg[i][j] = 0 /\ arg[i][j - 1] # 0 /\ arg[i][j + 1] # 0

\* C11 as stated: on a grid whose only tiles are a region 5 wide and 2 high
\* filled with 1, solve returns score 10 and a single Box with the region's
\* origin, width and height.
C11_BoxIsTheRegion ==
    \A o \in OnesOrigins :
        (phase = "returned" /\ arg = OnesGrid(o[1], o[2])) =>
            /\ result.score = 10
            /\ result.boxes = <<[x |-> o[1], y |-> o[2], width |-> 5, height |-> 2]>>

\* C11, amended: on such a grid solve returns score 10 and a single Box that
\* covers the region: the Box starts at the origin of the grid and ends at
\* the bottom-right corner of the region, so it is the region itself only
\* when the region lies in the top-left corner of the grid.
C11_BoxCoversTheRegion ==
    \A o \in OnesOrigins :
        (phase = "returned" /\ arg = OnesGrid(o[1], o[2])) =>
            /\ result.score = 10
            /\ result.boxes =
                   <<[x |-> 0, y |-> 0, width |-> o[1] + 5, height |-> o[2] + 2]>>

\* solve returned on such a grid whose region does not start in the first column
C11_Witness ==
    /\ phase = "returned"
    /\ \E o \in OnesOrigins : o[1] > 0 /\ arg = OnesGrid(o[1], o[2])
    /\ Len(result.boxes) = 1
    /\ result.boxes[1].width > 5

\* the solver has been called
SolverInvoked == phase \in {"solving", "returned", "failed"}

\* C12: a file whose number of rows differs from HEIGHT, or one of whose rows
\* has a number of columns that differs from WIDTH, is rejected and the solver
\* is never invoked; the solver is invoked only on a file of exactly HEIGHT
\* rows of exactly WIDTH integers, and on the grid of those integers.
C12_WrongDimensionsRejected ==
    /\ (Len(file) # HEIGHT \/ \E i \in 1..Len(file) : Len(file[i]) # WIDTH)
           => /\ ~SolverInvoked
              /\ stack = <<>>
    /\ SolverInvoked =>
           /\ Len(file) = HEIGHT
           /\ \A i \in 1..HEIGHT :
                 /\ Len(file[i]) = WIDTH
                 /\ \A j \in 1..WIDTH : is_int(file[i][j]) /\ arg[i][j] = int(file[i][j])

\* a file of HEIGHT rows of integers, one row a column too long, was rejected
C12_Witness ==
    /\ phase = "rejected"
    /\ Len(file) = HEIGHT
    /\ \A i \in 1..Len(file) : \A j \in 1..Len(file[i]) : is_int(file[i][j])
    /\ \E i \in 1..Len(file) : Len(file[i]) = WIDTH + 1

\* C13: on the file-based path the solver is never invoked on a grid with a
\* cell outside 0..9.
C13_CoreSeesOnlyValidCells ==
    SolverInvoked => \A c \in Cells : arg[c[1]][c[2]] \in 0..9

\* box n of the order holds no 0 on the grid the boxes before it leave
FullAt(g, boxes, n) ==
    \A c \in BoxCells(boxes[n].x, boxes[n].y, boxes[n].width, boxes[n].height) :
        SimulateGrid(g, SubSeq(boxes, 1, n - 1))[c[1]][c[2]] # 0

\* C14 as stated: replaying the returned order from the original grid, every
\* box holds no zero cell at the moment it is applied.
C14_EveryBoxFullWhenApplied ==
    phase = "ordered" =>
        \A n \in 1..Len(lists.ordered_boxes) : FullAt(arg, lists.ordered_boxes, n)

\* C14, amended: the returned order holds the boxes handed in, each as often
\* as it was handed in; replaying it from the original grid, every box holds
\* no zero cell at the moment it is applied as long as some box not yet
\* applied holds no zero cell; from the first box that holds a zero cell on,
\* every box of the order holds a zero cell on the grid of that moment.
C14_BoxesFullWhilePossible ==
    phase = "ordered" =>
        LET order == lists.ordered_boxes
        IN  /\ Len(order) = Len(lists.boxes)
            /\ \A n \in 1..Len(order) :
                   Cardinality({m \in 1..Len(order) : order[m] = order[n]})
                       = Cardinality({m \in 1..Len(order) : lists.boxes[m] = order[n]})
            /\ \A n \in 1..Len(order) :
                   ~FullAt(arg, order, n) =>
                       \A m \in n..Len(order) :
                           ~can_drag_box(SimulateGrid(arg, SubSeq(order, 1, n - 1)), order[m])

\* two boxes that share a tile were handed in: the first is applied full, the
\* second is returned after it although it then holds a zero cell
C14_Witness ==
    /\ phase = "ordered"
    /\ Len(lists.ordered_boxes) = 2
    /\ FullAt(arg, lists.ordered_boxes, 1)
    /\ ~FullAt(arg, lists.ordered_boxes, 2)
    /\ can_drag_box(arg, lists.ordered_boxes[2])

\* the sum-10 rectangles of the grid the loops have been through
Discovered == {r \in Sum10Boxes(heap[1]) : LexLess(LoopKey(r), enum.at)}

\* q comes before r in the stable sort by count of the rectangles in loop order
SortsBefore(g, q, r) ==
    LET cq == CountNonZero(g, q[1], q[2], q[3], q[4])
        cr == CountNonZero(g, r[1], r[2], r[3], r[4])
    IN  cq < cr \/ (cq = cr /\ LexLess(LoopKey(q), LoopKey(r)))

\* C15: the candidate list is the first D entries of the list of all sum-10
\* rectangles met so far, in (y, x, h, w) loop order, stably sorted by count:
\* entry i is the rectangle that exactly i - 1 of them sort before.  At the
\* end of the enumeration these are all the sum-10 rectangles of the grid.
C15_FirstDOfStableSort ==
    (phase = "enumerating" /\ enum.pass >= 1) =>
        \A met \in {Discovered} :
            /\ Len(enum.possible_moves) = Min(D, Cardinality(met))
            /\ \A i \in 1..Len(enum.possible_moves) :
                  LET m == enum.possible_moves[i]
                      r == <<m[1], m[2], m[3], m[4]>>
                  IN  /\ r \in met
                      /\ m[5] = CountNonZero(heap[1], m[1], m[2], m[3], m[4])
                      /\ Cardinality({q \in met : SortsBefore(heap[1], q, r)}) = i - 1

\* the enumeration has ended: the list is full, a rectangle met after the
\* first D has displaced an earlier one, and a rectangle with the count of
\* the last entry, met later than it, is left out
C15_Witness ==
    /\ phase = "enumerating"
    /\ enum.pass >= 1
    /\ ~EnumRunning
    /\ Len(enum.possible_moves) = D
    /\ \E i \in 1..D :
          LET m == enum.possible_moves[i]
          IN  Cardinality({q \in Discovered :
                              LexLess(LoopKey(q), LoopKey(<<m[1], m[2], m[3], m[4]>>))}) >= D
    /\ \E r \in Discovered :
          /\ CountNonZero(heap[1], r[1], r[2], r[3], r[4]) = enum.possible_moves[D][5]
          /\ \A i \in 1..D :
                <<enum.possible_moves[i][1], enum.possible_moves[i][2],
                  enum.possible_moves[i][3], enum.possible_moves[i][4]>> # r

\* C16 as stated: among the grids the dedup check may be given (same
\* dimensions, every cell in 0..9) there are two distinct grids with the same
\* fingerprint.
C16_CollisionExists ==
    phase \in {"hashing", "hashed"} =>
        \E g1 \in HashGrids : \E g2 \in HashGrids \ {g1} : hash_grid(g1) = hash_grid(g2)

\* C16, amended: the fingerprint is collision-free on grids of the same
\* dimensions with every cell in 0..9 (the multiplier 11 is above every cell
\* value): the dedup check prunes the second of two grids exactly when it is
\* the first grid, so it never prunes a node whose grid was not visited.
C16_DedupOnlyOnEqualGrids ==
    phase = "hashed" => ("dedup" \in exits <=> heap[1] = heap[2])

\* the dedup check let through a grid that ends ..., 0, 9 after the grid that
\* ends ..., 1, 0 and is the same elsewhere
C16_Witness ==
    /\ phase = "hashed"
    /\ exits = {"expanded"}
    /\ heap[1][HEIGHT][WIDTH - 1] = 1 /\ heap[1][HEIGHT][WIDTH] = 0
    /\ heap[2][HEIGHT][WIDTH - 1] = 0 /\ heap[2][HEIGHT][WIDTH] = 9
    /\ \A c \in Cells : c[2] < WIDTH - 1 => heap[1][c[1]][c[2]] = heap[2][c[1]][c[2]]

\* C17: during one solve invocation the visited set never holds more entries
\* than the cap.  (A node that is expanded marks its fingerprint, which the
\* set did not hold, so this also says that no node is expanded once the set
\* holds as many entries as the cap.)
C17_VisitedWithinCap ==
    phase \in {"solving", "returned"} => Cardinality(visited) <= SmallCap

\* C18 as stated: for some grid, some node returns at the bound check.  Here:
\* once solve has run on some grid and on every grid of the batch, one of
\* all the nodes entered has returned at the bound check.
C18_BoundCheckDiscards ==
    BatchDone => "bound" \in exits

\* C18, amended: the bound check never discards a branch.  Every node entered
\* at depth d > 0 has an in-progress score strictly greater than the floor
\* recorded for depth d - 1, and no node returns at the bound check.
C18_BoundCheckNeverDiscards ==
    /\ "bound" \notin exits
    /\ (phase = "solving" /\ Top.pc = "enter" /\ Top.num_moves > 0) =>
           current_strategy.score > best_intermediate_scores[Top.num_moves]

\* a node is entered at depth d > 0 with a score below the floor recorded for
\* its own depth by the nodes entered before it: the lowest score met so far
\* at that depth
C18_Witness ==
    /\ phase = "solving"
    /\ Top.pc = "enter"
    /\ Top.num_moves > 0
    /\ best_intermediate_scores[Top.num_moves + 1] < Inf
    /\ current_strategy.score < best_intermediate_scores[Top.num_moves + 1]

\* C19: every node entered during solve has depth at most floor(H*W/2), so
\* the index the bound check reads (num_moves - 1) and the index the floor
\* update writes (num_moves) are within the floor array of length
\* MAX_NUM_MOVES, and no run fails with an index out of range.
C19_DepthWithinFloorArray ==
    /\ phase # "failed"
    /\ phase = "solving" =>
           /\ Len(best_intermediate_scores) = (HEIGHT * WIDTH) \div 2 + 1
           /\ \A i \in 1..Len(stack) :
                  /\ stack[i].num_moves <= (HEIGHT * WIDTH) \div 2
                  /\ stack[i].num_moves + 1 \in DOMAIN best_intermediate_scores
                  /\ stack[i].num_moves > 0 =>
                         bound_depth(stack[i].num_moves) + 1
                             \in DOMAIN best_intermediate_scores

\* a node of depth floor(H*W/2) was entered and expanded: the last element of
\* the floor array was written and the node has no candidate
C19_Witness ==
    /\ phase = "solving"
    /\ Top.num_moves = (HEIGHT * WIDTH) \div 2
    /\ Top.pc = "loop"
    /\ Top.possible_moves = <<>>
    /\ best_intermediate_scores[MAX_NUM_MOVES] < Inf

\* the Box pushed by a frame that is inside the call for its k-th candidate
PushedBox(f) ==
    LET m == f.possible_moves[f.k]
    IN  [x |-> m[1], y |-> m[2], width |-> m[3], height |-> m[4]]

\* C20: backtracking is exact.  While solve runs, the in-progress Strategy is
\* a function of the chain of calls in progress: its Boxes are the candidates
\* the calling frames are inside, in order, and its score is the sum of their
\* counts.  So the node at depth d holds exactly d Boxes, and a caller whose
\* candidate has been popped has the Strategy it had before the push,
\* whichever check ended the call.  When solve returns the in-progress
\* Strategy is empty with score 0.
C20_BacktrackingExact ==
    LET boxes == lists[current_strategy.boxes]
        n == Len(stack)
    IN  /\ phase = "solving" =>
               /\ Len(boxes) = Top.num_moves
               /\ \A i \in 1..n : stack[i].num_moves = i - 1
               /\ \A i \in 1..(n - 1) :
                      /\ stack[i].pc = "backtrack"
                      /\ boxes[i] = PushedBox(stack[i])
               /\ current_strategy.score =
                      SumSeq([i \in 1..(n - 1) |-> stack[i].count])
        /\ phase = "returned" =>
               /\ boxes = <<>>
               /\ current_strategy.score = 0

\* a node at depth 2 or more has had all of its candidates pushed and popped,
\* in a run where calls have ended at the fingerprint check, at the cap check
\* and at the end of the loop
C20_Witness ==
    /\ phase = "solving"
    /\ Top.num_moves >= 2
    /\ Top.pc = "loop"
    /\ Len(Top.possible_moves) >= 2
    /\ Top.k = Len(Top.possible_moves) + 1
    /\ {"dedup", "cap", "expanded"} \subseteq exits

\* a step of _recurse that enters a node
EntersNode == phase = "solving" /\ Top.pc = "enter"

\* C21: the best update runs on entry to every node, whatever the checks then
\* decide.  The best Strategy starts empty with score 0; a step that enters a
\* node with a higher in-progress score makes the in-progress Boxes and score
\* the best ones; every other step of the search, and the entry of a node
\* whose score is not higher, leaves both unchanged.  So the best score is the
\* maximum in-progress score over the nodes entered so far, it never
\* decreases, and the best Boxes are the path of the first node entered with
\* that score.  Once a node has been entered, its score is at most the best.
C21_BestIsFirstMaximum ==
    /\ [](phase = "solving" =>
             /\ Top.pc # "enter" => current_strategy.score <= best_strategy.score
             /\ Len(stack) > 1 =>
                    current_strategy.score - stack[Len(stack) - 1].count
                        <= best_strategy.score)
    /\ [][LET best == lists[best_strategy.boxes]
              path == lists[current_strategy.boxes]
          IN  /\ phase \in {"idle", "returned"} /\ phase' = "solving" =>
                     /\ best_strategy'.score = 0
                     /\ lists'[best_strategy'.boxes] = <<>>
              /\ EntersNode /\ current_strategy.score > best_strategy.score =>
                     /\ best_strategy'.score = current_strategy.score
                     /\ lists'[best_strategy'.boxes] = path
              /\ EntersNode /\ current_strategy.score <= best_strategy.score =>
                     /\ best_strategy'.score = best_strategy.score
                     /\ lists'[best_strategy'.boxes] = best
              /\ phase = "solving" /\ ~EntersNode =>
                     /\ best_strategy'.score = best_strategy.score
                     /\ lists'[best_strategy'.boxes] = best]_vars

\* a node that returned at the cap check was entered with a score above the
\* best so far: its path and score are the best Strategy
C21_Witness ==
    /\ phase = "solving"
    /\ Top.pc = "return"
    /\ Top.exit = "cap"
    /\ current_strategy.score > 0
    /\ best_strategy.score = current_strategy.score
    /\ lists[best_strategy.boxes] = lists[current_strategy.boxes]

\* C22 as stated: every node that returns at the cap check has its
\* fingerprint in the visited set.
C22_CappedNodeIsMarked ==
    (phase = "solving" /\ Top.pc = "return" /\ Top.exit = "cap") =>
        hash_grid(heap[Top.grid]) \in visited

\* C22, amended: within one node the order is bound check, dedup check, cap
\* check, marking.  A node that returns at the dedup check has a fingerprint
\* already in the visited set; a node that returns at the cap check has a
\* novel fingerprint, is not marked and leaves the set as it found it, above
\* the cap; a node that is expanded has been marked.
C22_MarkedAfterCapCheck ==
    /\ [](phase = "solving" =>
             LET grid_hash == hash_grid(heap[Top.grid])
             IN  /\ (Top.pc = "return" /\ Top.exit = "dedup") => grid_hash \in visited
                 /\ (Top.pc = "return" /\ Top.exit = "cap") =>
                        /\ grid_hash \notin visited
                        /\ Cardinality(visited) > SmallCap
                 /\ Top.pc = "loop" => grid_hash \in visited)
    /\ [][(EntersNode /\ stack'[Len(stack)].exit = "cap") => visited' = visited]_vars

\* a node that is not the first candidate of its parent has returned at the
\* cap check, and its fingerprint is not in the visited set
C22_Witness ==
    /\ phase = "solving"
    /\ Top.pc = "return"
    /\ Top.exit = "cap"
    /\ stack[Len(stack) - 1].k >= 2
    /\ hash_grid(heap[Top.grid]) \notin visited

\* the node being entered passes the bound check: it is the root, or its
\* score is not below the floor of the depth above it
PassesBound ==
    \/ Top.num_moves = 0
    \/ current_strategy.score >= best_intermediate_scores[Top.num_moves]

\* the in-progress score with which the i-th frame of the stack was entered
EnteredScore(i) == SumSeq([j \in 1..(i - 1) |-> stack[j].count])

\* C23: the floor of depth d is the minimum in-progress score over the
\* depth-d nodes that have passed the bound check so far.  Every floor is
\* +infinity when solve starts; a step that enters a depth-d node passing the
\* bound check sets the floor of d to the lower of its value and the node's
\* score and leaves the other floors as they are; a node rejected by the
\* bound check, and every other step, leaves all floors unchanged.  So no
\* floor ever increases, and the floor of the depth of every call in
\* progress that is past the bound check is at most the score it was
\* entered with.
C23_FloorIsMinimumPerDepth ==
    /\ [](phase = "solving" =>
             \A i \in 1..Len(stack) :
                 (stack[i].pc # "enter" /\ stack[i].exit # "bound") =>
                     best_intermediate_scores[i] <= EnteredScore(i))
    /\ [][LET floors == best_intermediate_scores
              d == Top.num_moves
          IN  /\ phase \in {"idle", "returned"} /\ phase' = "solving" =>
                     best_intermediate_scores' = [i \in 1..MAX_NUM_MOVES |-> Inf]
              /\ EntersNode /\ PassesBound =>
                     /\ best_intermediate_scores'[d + 1] =
                            IF current_strategy.score < floors[d + 1]
                            THEN current_strategy.score
                            ELSE floors[d + 1]
                     /\ \A i \in 1..MAX_NUM_MOVES :
                            i # d + 1 => best_intermediate_scores'[i] = floors[i]
              /\ EntersNode /\ ~PassesBound => best_intermediate_scores' = floors
              /\ phase = "solving" /\ ~EntersNode =>
                     best_intermediate_scores' = floors
              /\ phase = "solving" =>
                     \A i \in 1..MAX_NUM_MOVES :
                         best_intermediate_scores'[i] <= floors[i]]_vars

\* a node of depth d > 0 has passed the bound check with a score above the
\* floor an earlier node of depth d had left: the floor keeps the lower value
C23_Witness ==
    /\ phase = "solving"
    /\ Top.num_moves > 0
    /\ Top.pc = "loop"
    /\ Top.k = 1
    /\ best_intermediate_scores[Top.num_moves + 1] < current_strategy.score

\* C24: the best Strategy is a snapshot.  Its Box list is never the list
\* object of the in-progress Strategy, and a step that pushes a Box and adds
\* its count (lines 131-137) or pops a Box and subtracts its count (lines
\* 150-151) changes the in-progress Strategy and leaves the best Boxes and the
\* best score as they were.
C24_BestIsSnapshot ==
    /\ [](phase = "solving" => best_strategy.boxes # current_strategy.boxes)
    /\ [][(/\ phase = "solving"
           /\ phase' = "solving"
           /\ Len(stack') # Len(stack)) =>
              /\ lists'[current_strategy'.boxes] # lists[current_strategy.boxes]
              /\ current_strategy'.score # current_strategy.score
              /\ lists'[best_strategy'.boxes] = lists[best_strategy.boxes]
              /\ best_strategy'.score = best_strategy.score]_vars

\* after a best update of three Boxes or more, Boxes were popped and another
\* Box was pushed: the in-progress Strategy differs from the best one in its
\* last Box and is shorter
C24_Witness ==
    /\ phase = "solving"
    /\ Top.pc = "enter"
    /\ Len(lists[best_strategy.boxes]) >= 3
    /\ Len(lists[current_strategy.boxes]) \in 1..(Len(lists[best_strategy.boxes]) - 1)
    /\ LET n == Len(lists[current_strategy.boxes])
       IN  lists[current_strategy.boxes][n] # lists[best_strategy.boxes][n]

\* C25: the grid of every call in progress at depth d has cell sum equal to
\* the sum of the initial grid minus 10 * d.  Hence the grids of two calls
\* in progress, which are at different depths of one root-to-node path,
\* differ.
C25_GridSumDropsTenPerMove ==
    phase = "solving" =>
        /\ \A i \in 1..Len(stack) :
               GridSum(heap[stack[i].grid]) = GridSum(arg) - 10 * stack[i].num_moves
        /\ \A i, j \in 1..Len(stack) :
               i # j => heap[stack[i].grid] # heap[stack[j].grid]

\* a node is entered at depth 2 or more on a grid that still has tiles, in a
\* solve on a grid with tiles of different values
C25_Witness ==
    /\ phase = "solving"
    /\ Top.pc = "enter"
    /\ Top.num_moves >= 2
    /\ GridSum(heap[Top.grid]) > 0
    /\ \E c \in Cells : arg[c[1]][c[2]] \notin {0, 5}

\* number of non-zero cells of a grid
NonZeroCells(g) == Cardinality({c \in Cells : g[c[1]][c[2]] > 0})

\* C26: the in-progress score at a node is the number of non-zero cells of
\* the initial grid minus the number of non-zero cells of the node's grid.
\* This holds of the running call, whose score the in-progress Strategy
\* carries, and of every call in progress with the score it was entered
\* with; so two nodes with equal grids have equal scores, and a node that
\* returns at the dedup check has a score no higher than the best.
C26_ScoreIsCellsRemoved ==
    phase = "solving" =>
        /\ current_strategy.score =
               NonZeroCells(arg) - NonZeroCells(heap[Top.grid])
        /\ \A i \in 1..Len(stack) :
               EnteredScore(i) = NonZeroCells(arg) - NonZeroCells(heap[stack[i].grid])
        /\ \A i \in 1..Len(stack) :
               stack[i].exit = "dedup" => EnteredScore(i) <= best_strategy.score

\* a node of depth 2 or more returns at the dedup check: its grid was reached
\* before by other moves, with the same number of cells removed; the initial
\* grid has cells that are zero
C26_Witness ==
    /\ phase = "solving"
    /\ Top.pc = "return"
    /\ Top.exit = "dedup"
    /\ Top.num_moves >= 2
    /\ NonZeroCells(heap[Top.grid]) > 0
    /\ NonZeroCells(arg) < HEIGHT * WIDTH
    /\ current_strategy.score = NonZeroCells(arg) - NonZeroCells(heap[Top.grid])

\* C27: when no call of a solve invocation has returned at the cap check,
\* the grid left by replaying the returned Strategy on the initial grid has
\* no rectangle summing to 10.
C27_ReturnedStrategyEndsAtLeaf ==
    (phase = "returned" /\ "cap" \notin exits) =>
        ~HasSum10Rect(SimulateGrid(arg, result.boxes))

\* solve returned, with calls ended at the dedup check and none at the cap
\* check, a Strategy of two Boxes or more that leaves tiles on the grid
C27_Witness ==
    /\ phase = "returned"
    /\ "cap" \notin exits
    /\ "dedup" \in exits
    /\ Len(result.boxes) >= 2
    /\ GridSum(SimulateGrid(arg, result.boxes)) > 0

\* C28: on grids with cells in 0..9 every candidate has a count of at least
\* 2: the candidates a node kept, the count of every move made on the path,
\* and so the step by which the score grows from a node to its child.
C28_EveryMoveRemovesTwoTiles ==
    phase = "solving" =>
        /\ \A c \in Cells : arg[c[1]][c[2]] \in 0..9
        /\ \A i \in 1..Len(stack) :
               /\ \A k \in 1..Len(stack[i].possible_moves) :
                      stack[i].possible_moves[k][5] >= 2
               /\ stack[i].pc = "backtrack" =>
                      /\ stack[i].count >= 2
                      /\ EnteredScore(i + 1) >= EnteredScore(i) + 2

\* a node below the root has a candidate of exactly two tiles, one of them
\* valued 9, whose rectangle also covers cells that are zero
C28_Witness ==
    /\ phase = "solving"
    /\ Top.pc = "loop"
    /\ Top.num_moves >= 1
    /\ \E k \in 1..Len(Top.possible_moves) :
           LET m == Top.possible_moves[k]
           IN  /\ m[5] = 2
               /\ m[3] * m[4] > 2
               /\ \E c \in BoxCells(m[1], m[2], m[3], m[4]) :
                      heap[Top.grid][c[1]][c[2]] = 9

====
